---- MODULE Spec2Model ----
(***************************************************************************)
(* Frames of finished documents (src/src/doc.rs): the Frame / Element /    *)
(* Group tree with its reference-counted, copy-on-write element buffers,   *)
(* the Lang and Region identifier codecs, the fold of metadata lists, and  *)
(* the numbering of the objects of an exported PDF (src/src/export/pdf.rs).*)
(*                                                                         *)
(* A frame value is [size, baseline, elements] where `elements` is the     *)
(* address of an Arc<Vec<(Point, Element)>> in `heap`.  A Group element    *)
(* owns a frame value, hence a reference to a buffer of its own.  The      *)
(* strong count of a buffer is the number of references to it from the     *)
(* frames of the program (`frames`), from the arguments an operation holds *)
(* and from the Group elements of the buffers that are alive.              *)
(***************************************************************************)
EXTENDS Integers, Sequences, FiniteSets, Bags, TLC

VARIABLES
    frames,   \* the frames the program holds: Slots -> frame value
    heap,     \* BufIds -> the element vector stored at that address
    last,     \* the operation that ran last, with its arguments
    fuel,     \* operations left to run
    iso,      \* the string last handed to Lang::from_str (a sequence of chars)
    lang,     \* the Result of that parse
    direction,\* dir() of the parsed Lang, None when the parse failed
    riso,     \* the string last handed to Region::from_str
    region,   \* the Result of that parse
    folding,  \* the last fold of metadata lists: [inner, outer, out]
    pdf       \* the PdfExporter: its layouts, font maps, offsets, the object
              \* ids written so far, the references emitted, and its position

vars ==
    <<frames, heap, last, fuel, iso, lang, direction, riso, region, folding, pdf>>

\* the variables the operations of a Frame leave alone
idents == <<iso, lang, direction, riso, region, folding, pdf>>

-----------------------------------------------------------------------------
(* Bounds of the model *)

\* push and prepend (one element) are enabled below this layer
MaxLen == 2
\* no buffer grows beyond this many elements (batches and inlining included)
MaxTotal == 7
\* nesting of Groups below a frame of the program
MaxDepth == 2
\* addresses of the heap
MaxBuf == 7
\* element positions and baselines stay within -MaxCoord .. MaxCoord
MaxCoord == 12
\* operations in a run of the two-frame specification
MaxOps == 3
\* Lang::from_str is tried on every string of at most this many chars
MaxIsoLen == 3
\* metadata lists that are folded have at most this many entries
MaxMetaLen == 3
\* pages of an exported document
MaxPages == 2
\* SetFont actions on a page
MaxSetFont == 2

Slots == {"a", "b"}
BufIds == 1..MaxBuf

-----------------------------------------------------------------------------
(* Geometry (crate::geom): points, sizes, alignment *)

\* stands for a non-finite length (f64::INFINITY): above every finite length
Inf == 1000 * 1000

Pt(x, y) == [x |-> x, y |-> y]
Zero == Pt(0, 0)
PAdd(p, q) == Pt(p.x + q.x, p.y + q.y)
is_zero(p) == p.x = 0 /\ p.y = 0
is_finite(size) == size.x # Inf /\ size.y # Inf

\* Align::position: where to put an item inside an extent
position(align, extent) ==
    CASE align = "start" -> 0
      [] align = "center" -> extent \div 2
      [] align = "end" -> extent

TransformIdentity == "identity"

None == <<>>
Some(v) == <<v>>

-----------------------------------------------------------------------------
(* Elements, groups and frame values *)

TextEl == [kind |-> "Text"]
MetaEl(m, size) == [kind |-> "Meta", meta |-> m, size |-> size]
GroupEl(frame, t, clips) ==
    [kind |-> "Group", frame |-> frame, transform |-> t, clips |-> clips]

\* Group::new
GroupNew(frame) == GroupEl(frame, TransformIdentity, FALSE)

Item(pos, el) == [pos |-> pos, el |-> el]

\* Frame { size, baseline, elements }
FrameVal(size, baseline, buf) ==
    [size |-> size, baseline |-> baseline, elements |-> buf]

\* the frame an element owns, if it is a Group
HeldBy(el) == IF el.kind = "Group" THEN <<el.frame>> ELSE <<>>

-----------------------------------------------------------------------------
(* The heap of Arc buffers *)

World == [frames |-> frames, heap |-> heap]

\* addresses the Group elements of a vector refer to
GroupBufs(items) ==
    {items[i].el.frame.elements :
        i \in {j \in 1..Len(items) : items[j].el.kind = "Group"}}

Roots(w, held) ==
    {w.frames[s].elements : s \in Slots} \cup {held[i].elements : i \in DOMAIN held}

RECURSIVE Closure(_, _)
Closure(w, S) ==
    LET T == S \cup UNION {GroupBufs(w.heap[b]) : b \in S}
    IN  IF T = S THEN S ELSE Closure(w, T)

\* the buffers that are alive: some Arc still points to them
Live(w, held) == Closure(w, Roots(w, held))

\* Arc::strong_count
strong_count(w, held, b) ==
    Cardinality({s \in Slots : w.frames[s].elements = b})
    + Cardinality({i \in DOMAIN held : held[i].elements = b})
    + Cardinality(UNION {
        {<<c, i>> : i \in {j \in 1..Len(w.heap[c]) :
            /\ w.heap[c][j].el.kind = "Group"
            /\ w.heap[c][j].el.frame.elements = b}}
        : c \in Live(w, held)})

\* Arc::new: a fresh address (the least free one)
Fresh(w, held) ==
    LET free == BufIds \ Live(w, held)
    IN  CHOOSE b \in free : \A c \in free : b <= c

\* dropping the last Arc frees the buffer
Collect(w) ==
    [w EXCEPT !.heap = [b \in BufIds |->
        IF b \in Live(w, <<>>) THEN w.heap[b] ELSE <<>>]]

Elems(w, s) == w.heap[w.frames[s].elements]

\* Frame::layer
layer(w, s) == Len(Elems(w, s))

\* Frame::is_empty
is_empty(w, s) == layer(w, s) = 0

\* Frame::baseline
baseline(f) == IF f.baseline = None THEN f.size.y ELSE f.baseline[1]

\* Arc::make_mut(&mut self.elements): clone the vector unless uniquely owned
make_mut(w, s, held) ==
    LET b == w.frames[s].elements
    IN  IF strong_count(w, held, b) = 1
        THEN w
        ELSE LET n == Fresh(w, held)
             IN  [frames |-> [w.frames EXCEPT ![s].elements = n],
                  heap |-> [w.heap EXCEPT ![n] = w.heap[b]]]

\* write through the (now unique) reference
Store(w, s, items) == [w EXCEPT !.heap[w.frames[s].elements] = items]

\* Vec::splice(at..at, xs)
Splice(items, at, xs) ==
    SubSeq(items, 1, at) \o xs \o SubSeq(items, at + 1, Len(items))

-----------------------------------------------------------------------------
(* Frame: constructor and setters, as functions from world to world *)

\* Frame::new (after its assert): baseline None, a fresh empty vector
new(w, s, size) ==
    LET n == Fresh(w, <<>>)
    IN  [frames |-> [w.frames EXCEPT ![s] = FrameVal(size, None, n)],
         heap |-> [w.heap EXCEPT ![n] = <<>>]]

\* Frame::default, left behind by std::mem::take
default(w, s, held) ==
    LET n == Fresh(w, held)
    IN  [frames |-> [w.frames EXCEPT ![s] = FrameVal(Zero, None, n)],
         heap |-> [w.heap EXCEPT ![n] = <<>>]]

\* Frame::set_size, and a write through Frame::size_mut
set_size(w, s, size) == [w EXCEPT !.frames[s].size = size]

\* Frame::set_baseline
set_baseline(w, s, v) == [w EXCEPT !.frames[s].baseline = Some(v)]

-----------------------------------------------------------------------------
(* Frame: insert elements and subframes *)

\* Frame::push
push(w, s, pos, el) ==
    LET w1 == make_mut(w, s, HeldBy(el))
    IN  Store(w1, s, Append(Elems(w1, s), Item(pos, el)))

\* faulty variant of insert: an index beyond the end is clamped to the end
insert_clamped(w, s, at, pos, el) ==
    LET w1 == make_mut(w, s, HeldBy(el))
        k == IF at > layer(w, s) THEN layer(w, s) ELSE at
    IN  Store(w1, s, Splice(Elems(w1, s), k, <<Item(pos, el)>>))

\* Frame::insert; Vec::insert panics when at > len, after make_mut has run
InsertPanics(w, s, at) == at > layer(w, s)

insert(w, s, at, pos, el) ==
    LET w1 == make_mut(w, s, HeldBy(el))
    IN  IF InsertPanics(w, s, at)
        THEN w1
        ELSE Store(w1, s, Splice(Elems(w1, s), at, <<Item(pos, el)>>))

\* Frame::prepend
prepend(w, s, pos, el) ==
    LET w1 == make_mut(w, s, HeldBy(el))
    IN  Store(w1, s, Splice(Elems(w1, s), 0, <<Item(pos, el)>>))

\* faulty variant of prepend_multiple: the items are prepended one after
\* the other, which reverses them
prepend_multiple_reversed(w, s, xs) ==
    LET w1 == make_mut(w, s, <<>>)
        rev == [i \in 1..Len(xs) |-> xs[Len(xs) + 1 - i]]
    IN  Store(w1, s, Splice(Elems(w1, s), 0, rev))

\* Frame::prepend_multiple
prepend_multiple(w, s, xs) ==
    LET w1 == make_mut(w, s, <<>>)
    IN  Store(w1, s, Splice(Elems(w1, s), 0, xs))

\* the inlining threshold of Frame::should_inline
InlineMax == 5

\* faulty variant of should_inline: `<` where the source has `<=`
should_inline_lt(w, s, child) ==
    is_empty(w, s) \/ Len(w.heap[child.elements]) < InlineMax

\* Frame::should_inline
should_inline(w, s, child) ==
    is_empty(w, s) \/ Len(w.heap[child.elements]) <= InlineMax

\* the closure |(p, e)| (p + pos, e) of Frame::inline
Shifted(items, pos) ==
    [i \in 1..Len(items) |-> Item(PAdd(items[i].pos, pos), items[i].el)]

\* faulty variant of inline: a vector that is moved out of a uniquely owned
\* child is spliced without the position adjustment
inline_moved_unshifted(w, s, at, pos, child) ==
    IF is_zero(pos) /\ is_empty(w, s)
    THEN [w EXCEPT !.frames[s].elements = child.elements]
    ELSE LET w1 == make_mut(w, s, <<child>>)
             unique == strong_count(w1, <<child>>, child.elements) = 1
             xs == w1.heap[child.elements]
         IN  IF is_zero(pos) \/ unique
             THEN Store(w1, s, Splice(Elems(w1, s), at, xs))
             ELSE Store(w1, s, Splice(Elems(w1, s), at, Shifted(xs, pos)))

\* faulty variant of inline: a parent that adopts the child's buffer adopts
\* the child's baseline too
inline_adopts_baseline(w, s, at, pos, child) ==
    IF is_zero(pos) /\ is_empty(w, s)
    THEN [w EXCEPT !.frames[s].elements = child.elements,
                   !.frames[s].baseline = child.baseline]
    ELSE LET w1 == make_mut(w, s, <<child>>)
             xs == w1.heap[child.elements]
         IN  Store(w1, s, Splice(Elems(w1, s), at, Shifted(xs, pos)))

\* faulty variant of inline: the splice loses the child's last element
inline_lossy(w, s, at, pos, child) ==
    IF is_zero(pos) /\ is_empty(w, s)
    THEN [w EXCEPT !.frames[s].elements = child.elements]
    ELSE LET w1 == make_mut(w, s, <<child>>)
             all == w1.heap[child.elements]
             xs == SubSeq(all, 1, Len(all) - 1)
         IN  Store(w1, s, Splice(Elems(w1, s), at, Shifted(xs, pos)))

\* Frame::inline; `child` is the frame passed by value
inline(w, s, at, pos, child) ==
    IF is_zero(pos) /\ is_empty(w, s)
    THEN \* reuse the elements: self.elements = frame.elements
         [w EXCEPT !.frames[s].elements = child.elements]
    ELSE LET w1 == make_mut(w, s, <<child>>)
             \* Arc::try_unwrap(frame.elements) is Ok when the child's Arc is
             \* the only one left; the vector is then moved, else cloned
             unique == strong_count(w1, <<child>>, child.elements) = 1
             moved == w1.heap[child.elements]
             cloned == [i \in 1..Len(w1.heap[child.elements]) |->
                          w1.heap[child.elements][i]]
             xs == IF unique THEN moved ELSE cloned
         IN  IF is_zero(pos)
             THEN Store(w1, s, Splice(Elems(w1, s), at, xs))
             ELSE Store(w1, s, Splice(Elems(w1, s), at, Shifted(xs, pos)))

\* faulty variant of push_frame: inlines whatever should_inline says
push_frame_inline_only(w, s, pos, child) ==
    inline(w, s, layer(w, s), pos, child)

\* Frame::push_frame
push_frame(w, s, pos, child) ==
    IF should_inline(w, s, child)
    THEN inline(w, s, layer(w, s), pos, child)
    ELSE push(w, s, pos, GroupNew(child))

\* Frame::prepend_frame
prepend_frame(w, s, pos, child) ==
    IF should_inline(w, s, child)
    THEN inline(w, s, 0, pos, child)
    ELSE prepend(w, s, pos, GroupNew(child))

-----------------------------------------------------------------------------
(* Frame: modify *)

\* Frame::clear
clear(w, s) ==
    IF strong_count(w, <<>>, w.frames[s].elements) = 1
    THEN Store(make_mut(w, s, <<>>), s, <<>>)
    ELSE LET n == Fresh(w, <<>>)
         IN  [frames |-> [w.frames EXCEPT ![s].elements = n],
              heap |-> [w.heap EXCEPT ![n] = <<>>]]

\* faulty variant of translate: writes through the Arc without make_mut
translate_in_place(w, s, offset) ==
    IF ~is_zero(offset)
    THEN LET f == w.frames[s]
             w0 == IF f.baseline # None
                   THEN [w EXCEPT !.frames[s].baseline = Some(f.baseline[1] + offset.y)]
                   ELSE w
         IN  Store(w0, s, Shifted(Elems(w0, s), offset))
    ELSE w

\* faulty variant of translate: no test for the zero offset
translate_unguarded(w, s, offset) ==
    LET f == w.frames[s]
        w0 == IF f.baseline # None
              THEN [w EXCEPT !.frames[s].baseline = Some(f.baseline[1] + offset.y)]
              ELSE w
        w1 == make_mut(w0, s, <<>>)
    IN  Store(w1, s, Shifted(Elems(w1, s), offset))

\* faulty variant of translate: the baseline moves by offset.x
translate_baseline_x(w, s, offset) ==
    IF ~is_zero(offset)
    THEN LET f == w.frames[s]
             w0 == IF f.baseline # None
                   THEN [w EXCEPT !.frames[s].baseline = Some(f.baseline[1] + offset.x)]
                   ELSE w
             w1 == make_mut(w0, s, <<>>)
         IN  Store(w1, s, Shifted(Elems(w1, s), offset))
    ELSE w

\* Frame::translate
translate(w, s, offset) ==
    IF ~is_zero(offset)
    THEN LET f == w.frames[s]
             w0 == IF f.baseline # None
                   THEN [w EXCEPT !.frames[s].baseline = Some(f.baseline[1] + offset.y)]
                   ELSE w
             w1 == make_mut(w0, s, <<>>)
         IN  Store(w1, s, Shifted(Elems(w1, s), offset))
    ELSE w

\* faulty variant of resize: the horizontal alignment is used on both axes
resize_one_align(w, s, target, aligns) ==
    LET size == w.frames[s].size
    IN  IF size # target
        THEN LET offset == Pt(position(aligns.x, target.x - size.x),
                              position(aligns.x, target.y - size.y))
             IN  translate([w EXCEPT !.frames[s].size = target], s, offset)
        ELSE w

\* Frame::resize
resize(w, s, target, aligns) ==
    LET size == w.frames[s].size
    IN  IF size # target
        THEN LET offset == Pt(position(aligns.x, target.x - size.x),
                              position(aligns.y, target.y - size.y))
             IN  translate([w EXCEPT !.frames[s].size = target], s, offset)
        ELSE w

\* Frame::new panics on a size that is not finite: so does Frame::group
GroupPanics(w, s) == ~is_finite(w.frames[s].size)

\* faulty variant of group: the wrapper does not take over the baseline
group_no_baseline(w, s, t, clips) ==
    LET self == w.frames[s]
        n == Fresh(w, <<>>)
        g == GroupEl(self, t, clips)
    IN  [frames |-> [w.frames EXCEPT ![s] = FrameVal(self.size, None, n)],
         heap |-> [w.heap EXCEPT ![n] = <<Item(Zero, g)>>]]

\* Frame::group with f setting the transform and the clip flag.  The Default
\* frame that std::mem::take leaves in self is dropped by `*self = wrapper`.
group(w, s, t, clips) ==
    LET self == w.frames[s]
        n == Fresh(w, <<>>)
        g == GroupEl(self, t, clips)
    IN  [frames |-> [w.frames EXCEPT ![s] = FrameVal(self.size, self.baseline, n)],
         heap |-> [w.heap EXCEPT ![n] = <<Item(Zero, g)>>]]

\* faulty variant of meta: the Meta elements go to the background
RECURSIVE meta_background(_, _, _)
meta_background(w, s, data) ==
    IF data = <<>> THEN w
    ELSE meta_background(prepend(w, s, Zero, MetaEl(Head(data), w.frames[s].size)),
                         s, Tail(data))

\* Frame::meta; data is what styles.get(Meta::DATA) returns
RECURSIVE meta(_, _, _)
meta(w, s, data) ==
    IF data = <<>> THEN w
    ELSE meta(push(w, s, Zero, MetaEl(Head(data), w.frames[s].size)), s, Tail(data))

\* Frame::transform
transform(w, s, t) == group(w, s, t, FALSE)

\* Frame::clip
clip(w, s) == group(w, s, TransformIdentity, TRUE)

-----------------------------------------------------------------------------
(* Lang (the identifier codec); a string is the sequence of its chars *)

\* the number of bytes of a char in UTF-8 (str::len counts bytes)
utf8_len(c) == IF c < 128 THEN 1 ELSE IF c < 2048 THEN 2 ELSE 3

RECURSIVE str_len(_)
str_len(str) == IF str = <<>> THEN 0 ELSE utf8_len(Head(str)) + str_len(Tail(str))

\* str::is_ascii
is_ascii(str) == \A i \in 1..Len(str) : str[i] < 128

\* u8::to_ascii_lowercase, as [u8]::make_ascii_lowercase applies it
to_ascii_lowercase(b) == IF b >= 65 /\ b <= 90 THEN b + 32 ELSE b

LangErr == "expected two or three letter language code (ISO 639-1/2/3)"

\* <Lang as FromStr>::from_str; a Lang is ([u8; 3], u8)
from_str(str) ==
    LET len == str_len(str)
    IN  IF len \in 2..3 /\ is_ascii(str)
        THEN LET bytes == [i \in 1..3 |-> IF i <= len THEN str[i] ELSE 32]
             IN  [ok |-> TRUE,
                  bytes |-> [i \in 1..3 |-> to_ascii_lowercase(bytes[i])],
                  len |-> len]
        ELSE [ok |-> FALSE, err |-> LangErr]

\* faulty variant of as_str: the whole array, padding included
as_str_padded(l) == l.bytes

\* Lang::as_str
as_str(l) == SubSeq(l.bytes, 1, l.len)

\* Lang::ENGLISH = Self(*b"en ", 2)
ENGLISH == [ok |-> TRUE, bytes |-> <<101, 110, 32>>, len |-> 2]

\* the codes Lang::dir matches: ar dv fa he ks pa ps sd ug ur yi
RtlCodes ==
    { <<97, 114>>, <<100, 118>>, <<102, 97>>, <<104, 101>>, <<107, 115>>,
      <<112, 97>>, <<112, 115>>, <<115, 100>>, <<117, 103>>, <<117, 114>>,
      <<121, 105>> }

\* faulty variant of dir: matches the padded array, not as_str()
dir_padded(l) == IF l.bytes \in RtlCodes THEN "RTL" ELSE "LTR"

\* Lang::dir
dir(l) == IF as_str(l) \in RtlCodes THEN "RTL" ELSE "LTR"

\* u8::to_ascii_uppercase, as [u8]::make_ascii_uppercase applies it
to_ascii_uppercase(b) == IF b >= 97 /\ b <= 122 THEN b - 32 ELSE b

RegionErr == "expected two letter region code (ISO 3166-1 alpha-2)"

\* faulty variant of region_from_str: a longer code is cut to two bytes
region_from_str_lenient(str) ==
    IF str_len(str) >= 2 /\ is_ascii(str)
    THEN [ok |-> TRUE, bytes |-> [i \in 1..2 |-> to_ascii_uppercase(str[i])]]
    ELSE [ok |-> FALSE, err |-> RegionErr]

\* <Region as FromStr>::from_str; a Region is [u8; 2]
region_from_str(str) ==
    IF str_len(str) = 2 /\ is_ascii(str)
    THEN [ok |-> TRUE, bytes |-> [i \in 1..2 |-> to_ascii_uppercase(str[i])]]
    ELSE [ok |-> FALSE, err |-> RegionErr]

\* Region::as_str
region_as_str(r) == r.bytes

-----------------------------------------------------------------------------
(* Metadata lists (Vec<Meta>) *)

\* Vec::extend: the items of the iterator are pushed one by one
RECURSIVE extend(_, _)
extend(v, it) == IF it = <<>> THEN v ELSE extend(Append(v, Head(it)), Tail(it))

\* faulty variant of fold: the outer list comes first
fold_outer_first(self, outer) == extend(outer, self)

\* <Vec<Meta> as Fold>::fold
fold(self, outer) == extend(self, outer)

-----------------------------------------------------------------------------
(* PDF export (src/src/export/pdf.rs): the numbering of the objects.  A page
   (Layout) is the sequence of the face ids of its SetFont actions.        *)

NUM_OBJECTS_PER_FONT == 5

Min(a, b) == IF a <= b THEN a ELSE b

\* all SetFont face ids of the layouts, in document order
RECURSIVE SetFonts(_)
SetFonts(layouts) ==
    IF layouts = <<>> THEN <<>> ELSE Head(layouts) \o SetFonts(Tail(layouts))

\* the loop of remap_fonts: to_fontdock gets a face at its first SetFont
RECURSIVE FirstUses(_, _)
FirstUses(faces, to_fontdock) ==
    IF faces = <<>> THEN to_fontdock
    ELSE FirstUses(Tail(faces),
                   IF \E i \in 1..Len(to_fontdock) : to_fontdock[i] = Head(faces)
                   THEN to_fontdock
                   ELSE Append(to_fontdock, Head(faces)))

\* remap_fonts: (to_pdf, to_fontdock); pdf indices count from 0
remap_fonts(layouts) ==
    LET to_fontdock == FirstUses(SetFonts(layouts), <<>>)
        used == {to_fontdock[i] : i \in 1..Len(to_fontdock)}
    IN  [to_pdf |-> [id \in used |->
                        (CHOOSE i \in 1..Len(to_fontdock) : to_fontdock[i] = id) - 1],
         to_fontdock |-> to_fontdock]

\* faulty variant of calculate_offsets: the contents start on the last page id
calculate_offsets_overlap(layout_count, font_count) ==
    LET catalog == 1
        page_tree == catalog + 1
        pages == <<page_tree + 1, page_tree + layout_count>>
        contents == <<pages[2], pages[2] + layout_count>>
        font_offsets == <<contents[2] + 1, contents[2] + 5 * font_count>>
    IN  [catalog |-> catalog, page_tree |-> page_tree, pages |-> pages,
         contents |-> contents, fonts |-> font_offsets]

\* calculate_offsets
calculate_offsets(layout_count, font_count) ==
    LET catalog == 1
        page_tree == catalog + 1
        pages == <<page_tree + 1, page_tree + layout_count>>
        contents == <<pages[2] + 1, pages[2] + layout_count>>
        font_offsets == <<contents[2] + 1, contents[2] + 5 * font_count>>
    IN  [catalog |-> catalog, page_tree |-> page_tree, pages |-> pages,
         contents |-> contents, fonts |-> font_offsets]

\* ids: the iterator start ..= end, as the sequence it yields
ids(pair) == [i \in 1..(pair[2] - pair[1] + 1) |-> pair[1] + i - 1]

\* PdfExporter::new
exporter_new(layouts) ==
    LET maps == remap_fonts(layouts)
    IN  [pc |-> "preface",
         layouts |-> layouts,
         to_pdf |-> maps.to_pdf,
         to_fontdock |-> maps.to_fontdock,
         offsets |-> calculate_offsets(Len(layouts), Cardinality(DOMAIN maps.to_pdf)),
         written |-> <<>>,
         refs |-> {}]

\* PdfExporter::write_preface: catalog, page tree, then one Page per item of
\* ids(pages).zip(ids(contents)).zip(layouts)
write_preface(e) ==
    LET o == e.offsets
        page_ids == ids(o.pages)
        content_ids == ids(o.contents)
        count == Min(Min(Len(page_ids), Len(content_ids)), Len(e.layouts))
        font_count == Cardinality(DOMAIN e.to_pdf)
        fonts == {o.fonts[1] + NUM_OBJECTS_PER_FONT * i : i \in 0..(font_count - 1)}
    IN  [e EXCEPT
          !.pc = "pages",
          !.written = @ \o <<o.catalog, o.page_tree>> \o SubSeq(page_ids, 1, count),
          !.refs = @ \cup {<<o.catalog, o.page_tree>>}
                     \cup {<<o.page_tree, page_ids[i]>> : i \in 1..Len(page_ids)}
                     \cup {<<o.page_tree, f>> : f \in fonts}
                     \cup {<<page_ids[i], o.page_tree>> : i \in 1..count}
                     \cup {<<page_ids[i], content_ids[i]>> : i \in 1..count}]

\* PdfExporter::write_pages: write_page writes one stream object per item of
\* ids(contents).zip(layouts)
write_pages(e) ==
    LET content_ids == ids(e.offsets.contents)
        count == Min(Len(content_ids), Len(e.layouts))
    IN  [e EXCEPT !.pc = "fonts", !.written = @ \o SubSeq(content_ids, 1, count)]

\* the body of the loop of write_fonts for the font whose first object is id
RECURSIVE font_loop(_, _, _)
font_loop(e, faces, id) ==
    IF faces = <<>> THEN e
    ELSE font_loop(
           [e EXCEPT
             !.written = @ \o <<id, id + 1, id + 2, id + 3, id + 4>>,
             !.refs = @ \cup {<<id, id + 1>>, <<id, id + 3>>,
                              <<id + 1, id + 2>>, <<id + 2, id + 4>>}],
           Tail(faces), id + NUM_OBJECTS_PER_FONT)

\* PdfExporter::write_fonts
write_fonts(e) ==
    [font_loop(e, e.to_fontdock, e.offsets.fonts[1]) EXCEPT !.pc = "done"]

-----------------------------------------------------------------------------
(* Inputs of the operations *)

S10 == Pt(10, 10)
S20 == Pt(20, 20)
FiniteSizes == {S10, S20}
InfSize == Pt(Inf, 10)

P1 == Pt(1, 2)
Positions == {Zero, P1}
Offsets == {Zero, Pt(2, 0), Pt(0, 3)}
Baselines == {8}
Aligns == {"start", "center", "end"}
Transforms == {"rotate"}
Leaves == {TextEl, MetaEl("link", S10)}

\* a batch of n elements for prepend_multiple: the i-th sits at (i, 0)
Batch(n) ==
    [i \in 1..n |-> Item(Pt(i, 0), IF i = 1 THEN MetaEl("node", S10) ELSE TextEl)]

\* chars: e n E N 1 2, a two-byte char (e with acute accent), a r A R u s
Chars == {101, 110, 69, 78, 49, 50, 233, 97, 114, 65, 82, 117, 115}
English == <<101, 110, 103, 108, 105, 115, 104>>
Strings(n) == UNION {[1..k -> Chars] : k \in 0..n}
\* every code of Lang::dir, in lower and in upper case
RtlInputs ==
    RtlCodes \cup {[i \in 1..2 |-> to_ascii_uppercase(c[i])] : c \in RtlCodes}
IsoInputs == Strings(MaxIsoLen) \cup {English} \cup RtlInputs

\* Meta::Link and Meta::Node values, and the lists of them
Metas == {"link", "node"}
MetaLists == UNION {[1..k -> Metas] : k \in 0..MaxMetaLen}

\* face ids of the font loader, the pages and the documents made of them
Faces == {4, 9}
Pages == UNION {[1..k -> Faces] : k \in 0..MaxSetFont}
Layouts == UNION {[1..k -> Pages] : k \in 0..MaxPages}

-----------------------------------------------------------------------------
(* What keeps the model finite *)

Magnitude(v) == IF v < 0 THEN -v ELSE v

RECURSIVE Depth(_, _)
Depth(w, b) ==
    LET kids == GroupBufs(w.heap[b])
    IN  IF kids = {} THEN 0
        ELSE LET d == {Depth(w, k) : k \in kids}
             IN  1 + CHOOSE m \in d : \A n \in d : n <= m

Fits(w) ==
    /\ \A b \in Live(w, <<>>) :
        /\ Len(w.heap[b]) <= MaxTotal
        /\ \A i \in 1..Len(w.heap[b]) :
            /\ Magnitude(w.heap[b][i].pos.x) <= MaxCoord
            /\ Magnitude(w.heap[b][i].pos.y) <= MaxCoord
    /\ \A s \in Slots :
        /\ Depth(w, w.frames[s].elements) <= MaxDepth
        /\ w.frames[s].baseline # None => Magnitude(w.frames[s].baseline[1]) <= MaxCoord

\* every operation allocates at most two buffers
CanAlloc == Cardinality(Live(World, <<>>)) + 2 <= MaxBuf

\* whether the frame's buffer has another owner when the operation starts
WasShared(s) == strong_count(World, <<>>, frames[s].elements) > 1

Commit(w, rec) ==
    /\ fuel # 0
    /\ Fits(w)
    /\ fuel' = fuel - 1
    /\ frames' = w.frames
    /\ heap' = Collect(w).heap
    /\ last' = rec @@ [shared |-> WasShared(rec.self)]
    /\ UNCHANGED idents

Panic(w, rec) == Commit(w, [rec EXCEPT !.ok = FALSE])

-----------------------------------------------------------------------------
(* The operations *)

Start ==
    /\ frames = [s \in Slots |-> FrameVal(S10, None, IF s = "a" THEN 1 ELSE 2)]
    /\ heap = [b \in BufIds |-> <<>>]
    /\ last = [op |-> "new", self |-> "b", ok |-> TRUE, size |-> S10, shared |-> FALSE]
    /\ iso = <<>>
    /\ lang = from_str(<<>>)
    /\ direction = None
    /\ riso = <<>>
    /\ region = region_from_str(<<>>)
    /\ folding = [inner |-> <<>>, outer |-> <<>>, out |-> fold(<<>>, <<>>)]
    /\ pdf = [pc |-> "idle"]

New(s, size) ==
    /\ CanAlloc
    /\ LET rec == [op |-> "new", self |-> s, ok |-> TRUE, size |-> size]
       IN  IF is_finite(size)
           THEN Commit(new(World, s, size), rec)
           ELSE Panic(World, rec)

Clone(src, dst) ==
    /\ src # dst
    /\ Commit([World EXCEPT !.frames[dst] = frames[src]],
              [op |-> "clone", self |-> dst, ok |-> TRUE, src |-> src])

SetSize(s, size) ==
    Commit(set_size(World, s, size),
           [op |-> "set_size", self |-> s, ok |-> TRUE, size |-> size])

SizeMut(s, size) ==
    Commit(set_size(World, s, size),
           [op |-> "size_mut", self |-> s, ok |-> TRUE, size |-> size])

SetBaseline(s, v) ==
    Commit(set_baseline(World, s, v),
           [op |-> "set_baseline", self |-> s, ok |-> TRUE, v |-> v])

Push(s, pos, el) ==
    /\ CanAlloc
    /\ layer(World, s) < MaxLen
    /\ Commit(push(World, s, pos, el),
              [op |-> "push", self |-> s, ok |-> TRUE, pos |-> pos, el |-> el])

Insert(s, at, pos, el) ==
    /\ CanAlloc
    /\ LET rec == [op |-> "insert", self |-> s, ok |-> TRUE,
                   at |-> at, pos |-> pos, el |-> el]
       IN  IF InsertPanics(World, s, at)
           THEN Panic(insert(World, s, at, pos, el), rec)
           ELSE Commit(insert(World, s, at, pos, el), rec)

Prepend(s, pos, el) ==
    /\ CanAlloc
    /\ layer(World, s) < MaxLen
    /\ Commit(prepend(World, s, pos, el),
              [op |-> "prepend", self |-> s, ok |-> TRUE, pos |-> pos, el |-> el])

PrependMultiple(s, xs) ==
    /\ CanAlloc
    /\ Commit(prepend_multiple(World, s, xs),
              [op |-> "prepend_multiple", self |-> s, ok |-> TRUE, xs |-> xs])

\* the child is a clone of frame c, or frame c itself taken out of its place
\* (std::mem::take), which leaves Frame::default() there
Given(c, how) == IF how = "take" THEN default(World, c, <<frames[c]>>) ELSE World

PushFrame(s, pos, c, how) ==
    /\ CanAlloc
    /\ how = "take" => c # s
    /\ Commit(push_frame(Given(c, how), s, pos, frames[c]),
              [op |-> "push_frame", self |-> s, ok |-> TRUE,
               pos |-> pos, child |-> c, how |-> how])

PrependFrame(s, pos, c, how) ==
    /\ CanAlloc
    /\ how = "take" => c # s
    /\ Commit(prepend_frame(Given(c, how), s, pos, frames[c]),
              [op |-> "prepend_frame", self |-> s, ok |-> TRUE,
               pos |-> pos, child |-> c, how |-> how])

Clear(s) ==
    /\ CanAlloc
    /\ Commit(clear(World, s), [op |-> "clear", self |-> s, ok |-> TRUE])

Translate(s, offset) ==
    /\ CanAlloc
    /\ Commit(translate(World, s, offset),
              [op |-> "translate", self |-> s, ok |-> TRUE, offset |-> offset])

Resize(s, target, aligns) ==
    /\ CanAlloc
    /\ is_finite(frames[s].size)
    /\ Commit(resize(World, s, target, aligns),
              [op |-> "resize", self |-> s, ok |-> TRUE,
               target |-> target, aligns |-> aligns])

Clip(s) ==
    /\ CanAlloc
    /\ LET rec == [op |-> "clip", self |-> s, ok |-> TRUE]
       IN  IF GroupPanics(World, s)
           THEN Panic(World, rec)
           ELSE Commit(clip(World, s), rec)

Transform(s, t) ==
    /\ CanAlloc
    /\ LET rec == [op |-> "transform", self |-> s, ok |-> TRUE, t |-> t]
       IN  IF GroupPanics(World, s)
           THEN Panic(World, rec)
           ELSE Commit(transform(World, s, t), rec)

Meta(s, data) ==
    /\ CanAlloc
    /\ Commit(meta(World, s, data), [op |-> "meta", self |-> s, ok |-> TRUE, data |-> data])

ParseLang(str) ==
    /\ fuel # 0
    /\ fuel' = fuel - 1
    /\ iso' = str
    /\ lang' = from_str(str)
    /\ direction' = IF lang'.ok THEN Some(dir(lang')) ELSE None
    /\ UNCHANGED <<frames, heap, last, riso, region, folding, pdf>>

ParseRegion(str) ==
    /\ fuel # 0
    /\ fuel' = fuel - 1
    /\ riso' = str
    /\ region' = region_from_str(str)
    /\ UNCHANGED <<frames, heap, last, iso, lang, direction, folding, pdf>>

FoldMeta(inner, outer) ==
    /\ fuel # 0
    /\ fuel' = fuel - 1
    /\ folding' = [inner |-> inner, outer |-> outer, out |-> fold(inner, outer)]
    /\ UNCHANGED <<frames, heap, last, iso, lang, direction, riso, region, pdf>>

\* export: PdfExporter::new, then write() runs its three steps in order
ExporterNew(layouts) ==
    /\ fuel # 0
    /\ fuel' = fuel - 1
    /\ pdf' = exporter_new(layouts)
    /\ UNCHANGED <<frames, heap, last, iso, lang, direction, riso, region, folding>>

WritePreface ==
    /\ pdf.pc = "preface"
    /\ pdf' = write_preface(pdf)
    /\ UNCHANGED <<frames, heap, last, fuel, iso, lang, direction, riso, region, folding>>

WritePages ==
    /\ pdf.pc = "pages"
    /\ pdf' = write_pages(pdf)
    /\ UNCHANGED <<frames, heap, last, fuel, iso, lang, direction, riso, region, folding>>

WriteFonts ==
    /\ pdf.pc = "fonts"
    /\ pdf' = write_fonts(pdf)
    /\ UNCHANGED <<frames, heap, last, fuel, iso, lang, direction, riso, region, folding>>

\* Both frames are new (Frame::new) and MaxOps operations may run
Init == Start /\ fuel = MaxOps

\* Two frames, every operation on either of them, the other one as the child

PushArgs == {<<Zero, TextEl>>, <<P1, MetaEl("link", S10)>>}
Other(s) == CHOOSE c \in Slots : c # s

Next ==
    \/ \E s \in Slots : Clone(Other(s), s)
    \/ \E s \in Slots, v \in Baselines : SetBaseline(s, v)
    \/ \E s \in Slots, a \in PushArgs : Push(s, a[1], a[2])
    \/ \E s \in Slots, at \in {0, 1, MaxLen + 1} : Insert(s, at, P1, TextEl)
    \/ \E s \in Slots : Prepend(s, P1, TextEl)
    \/ \E s \in Slots, xs \in {Batch(InlineMax), Batch(InlineMax + 1)} :
          PrependMultiple(s, xs)
    \/ \E s \in Slots, pos \in Positions, how \in {"clone", "take"} :
          PushFrame(s, pos, Other(s), how)
    \/ \E s \in Slots, pos \in Positions, how \in {"clone", "take"} :
          PrependFrame(s, pos, Other(s), how)
    \/ \E s \in Slots : Clear(s)
    \/ \E s \in Slots, offset \in {Zero, Pt(2, 3)} : Translate(s, offset)
    \/ \E s \in Slots : Resize(s, S20, [x |-> "center", y |-> "end"])
    \/ \E s \in Slots : Clip(s)
    \/ \E s \in Slots, t \in Transforms : Transform(s, t)

Spec == Init /\ [][Next]_vars

\* One frame, every operation with all of its inputs, runs of MaxOps operations;
\* a child frame is a clone of the frame itself
NextOne ==
    \/ \E size \in {S10, InfSize} : New("a", size)
    \/ \E size \in {S20, InfSize} : SetSize("a", size)
    \/ \E size \in {S20, InfSize} : SizeMut("a", size)
    \/ \E v \in Baselines : SetBaseline("a", v)
    \/ \E pos \in Positions, el \in Leaves : Push("a", pos, el)
    \/ \E at \in 0..MaxLen : Insert("a", at, P1, TextEl)
    \/ \E a \in PushArgs : Prepend("a", a[1], a[2])
    \/ \E xs \in {Batch(1), Batch(InlineMax + 1)} : PrependMultiple("a", xs)
    \/ \E pos \in Positions : PushFrame("a", pos, "a", "clone")
    \/ \E pos \in Positions : PrependFrame("a", pos, "a", "clone")
    \/ Clear("a")
    \/ \E offset \in Offsets : Translate("a", offset)
    \/ \E ax \in Aligns, ay \in Aligns : Resize("a", S20, [x |-> ax, y |-> ay])
    \/ \E al \in Aligns : Resize("a", S10, [x |-> al, y |-> al])
    \/ \E data \in {<<>>, <<"node", "link">>} : Meta("a", data)
    \/ Clip("a")
    \/ \E t \in Transforms : Transform("a", t)

SpecOne == Init /\ [][NextOne]_vars

\* A pure function is applied once, to every input
InitOnce == Start /\ fuel = 1

\* The identifier codec alone
NextLang == \E str \in IsoInputs : ParseLang(str)

SpecLang == InitOnce /\ [][NextLang]_vars

\* The region codec alone
NextRegion == \E str \in IsoInputs : ParseRegion(str)

SpecRegion == InitOnce /\ [][NextRegion]_vars

\* The fold of metadata lists alone
NextFold == \E inner \in MetaLists, outer \in MetaLists : FoldMeta(inner, outer)

SpecFold == InitOnce /\ [][NextFold]_vars

\* The export of one document
NextPdf ==
    \/ \E layouts \in Layouts : ExporterNew(layouts)
    \/ WritePreface
    \/ WritePages
    \/ WriteFonts

SpecPdf == InitOnce /\ [][NextPdf]_vars

-----------------------------------------------------------------------------
(* What a reader of a frame observes *)

\* the element list of a buffer, the child frames of its Groups read through
RECURSIVE ViewItems(_, _)
ViewItems(hp, b) ==
    [i \in 1..Len(hp[b]) |->
        LET it == hp[b][i]
        IN  IF it.el.kind = "Group"
            THEN Item(it.pos,
                      [kind |-> "Group",
                       size |-> it.el.frame.size,
                       baseline |-> it.el.frame.baseline,
                       items |-> ViewItems(hp, it.el.frame.elements),
                       transform |-> it.el.transform,
                       clips |-> it.el.clips])
            ELSE it]

Observed(fr, hp, s) == [size |-> fr[s].size, items |-> ViewItems(hp, fr[s].elements)]

\* the Meta elements of a frame's tree, with their multiplicities
RECURSIVE MetaBag(_, _)
MetaBag(hp, items) ==
    IF items = <<>> THEN EmptyBag
    ELSE LET el == Head(items).el
             here == CASE el.kind = "Meta" -> SetToBag({el})
                       [] el.kind = "Group" -> MetaBag(hp, hp[el.frame.elements])
                       [] OTHER -> EmptyBag
         IN  here (+) MetaBag(hp, Tail(items))

GroupCount(items) ==
    Cardinality({i \in 1..Len(items) : items[i].el.kind = "Group"})

Mutators ==
    {"push", "insert", "prepend", "prepend_multiple", "push_frame",
     "prepend_frame", "clear", "translate", "resize"}

FrameOps == {"push_frame", "prepend_frame"}

\* frame o was moved out of its place to be the child of the last operation
Taken(rec, o) == rec.op \in FrameOps /\ rec.how = "take" /\ rec.child = o

-----------------------------------------------------------------------------
(* Claims *)

\* C1: copy-on-write isolation.  When frame s is mutated by push, insert,
\* prepend, prepend_multiple, push_frame, prepend_frame, clear, translate or
\* resize, every other frame o whose tree reaches the buffer of s (o shares
\* the buffer, as a clone or through adoption) keeps its element list and size.
C1_CowIsolation ==
    [][\A s \in Slots, o \in Slots :
        ( /\ s # o
          /\ last'.self = s
          /\ last'.op \in Mutators
          /\ ~Taken(last', o)
          /\ frames[s].elements \in Closure(World, {frames[o].elements}) )
        => Observed(frames', heap', o) = Observed(frames, heap, o)]_vars

\* a translate by a non-zero offset has moved the elements of a frame whose
\* buffer the other frame shared, and that frame still has its elements
C1_Witness ==
    /\ last.op = "translate" /\ ~is_zero(last.offset) /\ last.shared
    /\ layer(World, last.self) > 0
    /\ layer(World, Other(last.self)) > 0
    /\ frames[last.self].elements # frames[Other(last.self)].elements

\* C2: inlining policy.  push_frame and prepend_frame inline the child exactly
\* when the parent is empty or the child has at most InlineMax (5) elements:
\* the parent then grows by the child's element count and gains no Group of
\* its own; otherwise it grows by one element, a Group holding the child.
C2_InliningPolicy ==
    [][last'.op \in FrameOps =>
        LET s == last'.self
            child == frames[last'.child]
            k == Len(heap[child.elements])
            n == Len(heap[frames[s].elements])
            old == heap[frames[s].elements]
            now == heap'[frames'[s].elements]
            at == IF last'.op = "push_frame" THEN n + 1 ELSE 1
        IN  IF n = 0 \/ k <= 5
            THEN /\ Len(now) = n + k
                 /\ GroupCount(now) = GroupCount(old) + GroupCount(heap[child.elements])
            ELSE /\ Len(now) = n + 1
                 /\ GroupCount(now) = GroupCount(old) + 1
                 /\ now[at] = Item(last'.pos, GroupEl(child, TransformIdentity, FALSE))]_vars

\* a child of 5 elements was pushed into a parent of one element and inlined
C2_Witness ==
    /\ last.op = "push_frame"
    /\ Elems(World, last.self) = <<Item(Zero, TextEl)>> \o Shifted(Batch(5), last.pos)

\* C3 as stated: for every parent, push_frame of a child of more than 5
\* elements adds exactly one element, a Group.
C3_AlwaysGroup ==
    [][last'.op = "push_frame" =>
        LET s == last'.self
            k == Len(heap[frames[last'.child].elements])
            n == Len(heap[frames[s].elements])
            now == heap'[frames'[s].elements]
        IN  k > 5 => Len(now) = n + 1 /\ now[n + 1].el.kind = "Group"]_vars

\* C3 amended: for every parent that is not empty, push_frame of a child of
\* more than 5 elements adds exactly one element, a Group holding the child.
C3_GroupIfParentNotEmpty ==
    [][last'.op = "push_frame" =>
        LET s == last'.self
            child == frames[last'.child]
            k == Len(heap[child.elements])
            n == Len(heap[frames[s].elements])
            now == heap'[frames'[s].elements]
        IN  k > 5 /\ n > 0 =>
              /\ Len(now) = n + 1
              /\ SubSeq(now, 1, n) = heap[frames[s].elements]
              /\ now[n + 1].el.kind = "Group"
              /\ now[n + 1].el.frame = child]_vars

\* a child of 6 elements was pushed into a parent of one element as a Group
C3_Witness ==
    /\ last.op = "push_frame"
    /\ layer(World, last.self) = 2
    /\ Elems(World, last.self)[2].el.kind = "Group"
    /\ heap[Elems(World, last.self)[2].el.frame.elements] = Batch(6)

\* C4: the size of every frame is finite in every reachable state.
C4_SizeFinite == \A s \in Slots : is_finite(frames[s].size)

\* C5: Meta elements are neither lost nor duplicated.  The bag of Meta
\* elements in a frame's tree is the same after translate, resize, clip and
\* transform, and push_frame / prepend_frame add the bag of the child's tree.
C5_MetaPreserved ==
    [][LET s == last'.self
           old == MetaBag(heap, heap[frames[s].elements])
           now == MetaBag(heap', heap'[frames'[s].elements])
       IN  /\ last'.op \in {"translate", "resize", "clip", "transform"} => now = old
           /\ last'.op \in FrameOps =>
                now = old (+) MetaBag(heap, heap[frames[last'.child].elements])]_vars

\* a child holding a Meta element was wrapped in a Group by push_frame
C5_Witness ==
    /\ last.op = "push_frame"
    /\ LET items == Elems(World, last.self)
       IN  /\ Len(items) > 1
           /\ items[Len(items)].el.kind = "Group"
           /\ MetaBag(heap, heap[items[Len(items)].el.frame.elements]) # EmptyBag

\* C6: after clip() or transform(t) the frame has exactly one element, a Group
\* at position zero whose child is the frame as it was (its elements in their
\* order and positions); clip sets clips and keeps the identity transform,
\* transform(t) sets the transform and leaves clips unset; the size and the
\* baseline of the frame are the same as before.
C6_GroupWraps ==
    [][last'.op \in {"clip", "transform"} /\ last'.ok =>
        LET s == last'.self
            now == heap'[frames'[s].elements]
        IN  /\ Len(now) = 1
            /\ now[1].pos = Zero
            /\ now[1].el.kind = "Group"
            /\ now[1].el.frame = frames[s]
            /\ ViewItems(heap', now[1].el.frame.elements)
                 = ViewItems(heap, frames[s].elements)
            /\ last'.op = "clip" =>
                 now[1].el.clips /\ now[1].el.transform = TransformIdentity
            /\ last'.op = "transform" =>
                 ~now[1].el.clips /\ now[1].el.transform = last'.t
            /\ frames'[s].size = frames[s].size
            /\ frames'[s].baseline = frames[s].baseline]_vars

\* clip has wrapped a frame that has elements and whose baseline was set
C6_Witness ==
    /\ last.op = "clip" /\ last.ok
    /\ frames[last.self].baseline # None
    /\ Len(heap[Elems(World, last.self)[1].el.frame.elements]) >= 1

\* C7: translate by the zero offset changes nothing: size, baseline and every
\* position stay, and the frame keeps the very buffer it had, so a frame
\* sharing it still shares it.
C7_TranslateZero ==
    [][last'.op = "translate" /\ is_zero(last'.offset) =>
        /\ frames' = frames
        /\ heap' = heap]_vars

\* translate(zero) ran on a frame with elements whose buffer is shared
C7_Witness ==
    /\ last.op = "translate" /\ is_zero(last.offset) /\ last.shared
    /\ layer(World, last.self) > 0
    /\ frames[last.self].elements = frames[Other(last.self)].elements

\* C8: translate by a non-zero offset adds the offset to the position of
\* every top-level element, adds offset.y to a baseline that was set, and
\* leaves the size, the order of the elements and the Group children alone;
\* a frame without a baseline reports its height as its baseline.
C8_Translate ==
    [][last'.op = "translate" /\ ~is_zero(last'.offset) =>
        LET s == last'.self
            off == last'.offset
            old == ViewItems(heap, frames[s].elements)
            now == ViewItems(heap', frames'[s].elements)
        IN  /\ Len(now) = Len(old)
            /\ \A i \in 1..Len(old) :
                 /\ now[i].pos = Pt(old[i].pos.x + off.x, old[i].pos.y + off.y)
                 /\ now[i].el = old[i].el
            /\ frames'[s].size = frames[s].size
            /\ frames[s].baseline # None =>
                 baseline(frames'[s]) = frames[s].baseline[1] + off.y
            /\ frames[s].baseline = None =>
                 /\ frames'[s].baseline = None
                 /\ baseline(frames'[s]) = frames'[s].size.y]_vars

\* translate((0, 3)) ran on a frame with an element and the baseline set to 8
C8_Witness ==
    /\ last.op = "translate" /\ last.offset = Pt(0, 3)
    /\ layer(World, last.self) > 0
    /\ baseline(frames[last.self]) = 11

\* the shift the claim states for an alignment and a slack
C9Shift(align, slack) ==
    IF align = "start" THEN 0 ELSE IF align = "center" THEN slack \div 2 ELSE slack

\* C9: resize(target, aligns) with target # size sets the size to target and
\* shifts every element by the alignment applied to the slack target - size,
\* each axis by its own alignment: start 0, center half, end all of it (10x10
\* to 20x20: center (5,5), start (0,0), end (10,10)); with target = size it
\* changes nothing.
C9_Resize ==
    [][last'.op = "resize" =>
        LET s == last'.self
            size == frames[s].size
            target == last'.target
            dx == C9Shift(last'.aligns.x, target.x - size.x)
            dy == C9Shift(last'.aligns.y, target.y - size.y)
            old == ViewItems(heap, frames[s].elements)
            now == ViewItems(heap', frames'[s].elements)
        IN  IF target = size
            THEN frames' = frames /\ heap' = heap
            ELSE /\ frames'[s].size = target
                 /\ Len(now) = Len(old)
                 /\ \A i \in 1..Len(old) :
                      /\ now[i].pos = Pt(old[i].pos.x + dx, old[i].pos.y + dy)
                      /\ now[i].el = old[i].el
                 /\ (size = S10 /\ target = S20) =>
                      /\ last'.aligns.x = "center" => dx = 5
                      /\ last'.aligns.y = "center" => dy = 5
                      /\ last'.aligns.x = "end" => dx = 10
                      /\ last'.aligns.y = "end" => dy = 10]_vars

\* a 10x10 frame with an element at (1,2) was resized to 20x20, centered
\* horizontally and end-aligned vertically: the element sits at (6,12)
C9_Witness ==
    /\ last.op = "resize" /\ last.target = S20
    /\ last.aligns = [x |-> "center", y |-> "end"]
    /\ frames[last.self].size = S20
    /\ layer(World, last.self) = 1
    /\ Elems(World, last.self)[1].pos = Pt(6, 12)

\* a two- or three-letter code: 2 or 3 chars, each an ASCII letter
IsLetterCode(str) ==
    /\ Len(str) \in 2..3
    /\ \A i \in 1..Len(str) : str[i] \in (65..90) \cup (97..122)

\* C10: Lang parsing fails for every input that is not a two- or three-letter
\* language code; "e", "english" and "12" fail.
C10_NonLetterFails == ~IsLetterCode(iso) => ~lang.ok

\* the input with its ASCII upper-case letters made lower-case
Lowered(str) == [i \in 1..Len(str) |-> IF str[i] \in 65..90 THEN str[i] + 32 ELSE str[i]]

\* C11: Lang round trip.  A pure-ASCII input of 2 or 3 bytes parses, and
\* as_str() is the input lowercased, of the input's length (no padding);
\* the parse does not depend on the letter case ("EN" gives Lang::ENGLISH),
\* parsing as_str() gives the value back, and every other input fails.
C11_LangRoundTrip ==
    IF str_len(iso) \in 2..3 /\ \A i \in 1..Len(iso) : iso[i] < 128
    THEN /\ lang.ok
         /\ as_str(lang) = Lowered(iso)
         /\ Len(as_str(lang)) = Len(iso)
         /\ from_str(Lowered(iso)) = lang
         /\ from_str(as_str(lang)) = lang
         /\ Lowered(iso) = <<101, 110>> => lang = ENGLISH
    ELSE ~lang.ok

\* "EN" was parsed, to Lang::ENGLISH
C11_Witness == iso = <<69, 78>> /\ lang.ok /\ as_str(lang) = <<101, 110>>

\* the input with its ASCII lower-case letters made upper-case
Uppered(str) == [i \in 1..Len(str) |-> IF str[i] \in 97..122 THEN str[i] - 32 ELSE str[i]]

\* C12: Region parsing succeeds exactly for the pure-ASCII inputs of 2 bytes,
\* and as_str() is then the input uppercased; every other input gives the
\* error value and no Region.
C12_RegionParse ==
    IF str_len(riso) = 2 /\ \A i \in 1..Len(riso) : riso[i] < 128
    THEN region.ok /\ region_as_str(region) = Uppered(riso)
    ELSE region = [ok |-> FALSE, err |-> RegionErr]

\* "us" was parsed, to the Region "US"
C12_Witness == riso = <<117, 115>> /\ region.ok /\ region_as_str(region) = <<85, 83>>

\* ar dv fa he ks pa ps sd ug ur yi, as chars
RightToLeft ==
    { <<97, 114>>, <<100, 118>>, <<102, 97>>, <<104, 101>>, <<107, 115>>,
      <<112, 97>>, <<112, 115>>, <<115, 100>>, <<117, 103>>, <<117, 114>>,
      <<121, 105>> }

\* C13: for every successfully parsed Lang, dir() is right-to-left exactly
\* when the lowercased code is one of ar dv fa he ks pa ps sd ug ur yi and
\* left-to-right otherwise, whatever the letter case of the input.
C13_Direction ==
    lang.ok =>
        /\ direction = Some(IF Lowered(iso) \in RightToLeft THEN "RTL" ELSE "LTR")
        /\ direction = Some(dir(from_str(Uppered(iso))))
        /\ direction = Some(dir(from_str(Lowered(iso))))

\* "AR" was parsed and its direction is right-to-left
C13_Witness == iso = <<65, 82>> /\ lang.ok /\ direction = Some("RTL")

\* C14: inner.fold(outer) is inner followed by outer: every entry of both
\* lists once, inner entries first, each list in its own order; so fold is
\* associative and the empty list is its identity on both sides.
C14_FoldOrder ==
    LET i == folding.inner
        o == folding.outer
        r == folding.out
    IN  /\ Len(r) = Len(i) + Len(o)
        /\ \A k \in 1..Len(i) : r[k] = i[k]
        /\ \A k \in 1..Len(o) : r[Len(i) + k] = o[k]
        /\ fold(<<>>, r) = r /\ fold(r, <<>>) = r
        /\ \A z \in MetaLists : fold(r, z) = fold(i, fold(o, z))

\* two lists of different entries were folded
C14_Witness ==
    /\ folding.inner = <<"link">> /\ folding.outer = <<"node", "link">>
    /\ folding.out = <<"link", "node", "link">>

\* C15: insert(layer, pos, element) with layer <= layer() puts the element
\* at index layer, moves the elements from that index on up by one and keeps
\* the others in place; with layer > layer() it fails, the element list is
\* not changed (the index is not clamped), and no other frame observes a
\* new element in either case.
C15_Insert ==
    [][last'.op = "insert" =>
        LET s == last'.self
            at == last'.at
            old == heap[frames[s].elements]
            now == heap'[frames'[s].elements]
        IN  /\ at <= Len(old) =>
                /\ last'.ok
                /\ Len(now) = Len(old) + 1
                /\ now[at + 1] = Item(last'.pos, last'.el)
                /\ \A k \in 1..Len(old) : now[IF k <= at THEN k ELSE k + 1] = old[k]
            /\ at > Len(old) => ~last'.ok /\ now = old
            /\ \A t \in Slots \ {s} :
                  heap'[frames'[t].elements] = heap[frames[t].elements]]_vars

\* an insert beyond the end has failed on a frame whose buffer was shared
C15_Witness ==
    /\ last.op = "insert" /\ ~last.ok /\ last.shared
    /\ layer(World, last.self) > 0
    /\ \E t \in Slots \ {last.self} : Elems(World, t) = Elems(World, last.self)

\* C16: paint order.  push puts the new element at the last index, prepend
\* at index 0, and prepend_multiple(xs) makes the first |xs| elements xs in
\* iteration order; the elements already present follow resp. precede in
\* the order they had.
C16_PaintOrder ==
    [][LET s == last'.self
           old == heap[frames[s].elements]
           now == heap'[frames'[s].elements]
       IN  /\ last'.op = "push" =>
               /\ Len(now) = Len(old) + 1
               /\ now[Len(now)] = Item(last'.pos, last'.el)
               /\ \A k \in 1..Len(old) : now[k] = old[k]
           /\ last'.op = "prepend" =>
               /\ Len(now) = Len(old) + 1
               /\ now[1] = Item(last'.pos, last'.el)
               /\ \A k \in 1..Len(old) : now[k + 1] = old[k]
           /\ last'.op = "prepend_multiple" =>
               /\ Len(now) = Len(old) + Len(last'.xs)
               /\ \A k \in 1..Len(last'.xs) : now[k] = last'.xs[k]
               /\ \A k \in 1..Len(old) : now[Len(last'.xs) + k] = old[k]]_vars

\* six elements were prepended to a frame that had an element: the first of
\* the six is furthest back, the old element is last
C16_Witness ==
    /\ last.op = "prepend_multiple" /\ Len(last.xs) = InlineMax + 1
    /\ layer(World, last.self) = InlineMax + 2
    /\ Elems(World, last.self)[1] = last.xs[1]
    /\ Elems(World, last.self)[2] = last.xs[2]

\* C17: whenever push_frame or prepend_frame inlines a child at pos, the
\* parent's new list is its old list with the child's elements spliced in at
\* the end (push_frame) or at index 0 (prepend_frame), in the child's order,
\* each at its position in the child + pos; whichever of the three cases of
\* inline applies and whether the child's buffer was shared or not.
C17_InlineSplice ==
    [][last'.op \in FrameOps =>
        LET s == last'.self
            pos == last'.pos
            old == heap[frames[s].elements]
            kid == heap[frames[last'.child].elements]
            now == heap'[frames'[s].elements]
            n == Len(old)
            k == Len(kid)
            at == IF last'.op = "push_frame" THEN n ELSE 0
        IN  n = 0 \/ k <= 5 =>
              /\ Len(now) = n + k
              /\ \A i \in 1..k :
                    /\ now[at + i].el = kid[i].el
                    /\ now[at + i].pos.x = kid[i].pos.x + pos.x
                    /\ now[at + i].pos.y = kid[i].pos.y + pos.y
              /\ \A j \in 1..n : now[IF j <= at THEN j ELSE j + k] = old[j]]_vars

\* a child whose buffer the other frame still holds was inlined behind the
\* elements of the parent, at a position that is not zero
C17_Witness ==
    /\ last.op = "push_frame" /\ last.how = "clone" /\ ~is_zero(last.pos)
    /\ LET now == Elems(World, last.self)
           kid == Elems(World, last.child)
       IN  /\ kid # <<>> /\ Len(now) > Len(kid)
           /\ now[Len(now)] = Item(PAdd(kid[Len(kid)].pos, last.pos), kid[Len(kid)].el)

\* C18: meta(styles), the lookup returning a list of n entries, appends n
\* Meta elements to the foreground in the list's order, each at position
\* zero with the frame's size at the time of the call as its region, and
\* leaves the elements already there, the size and the baseline unchanged.
C18_Meta ==
    [][last'.op = "meta" =>
        LET s == last'.self
            data == last'.data
            old == heap[frames[s].elements]
            now == heap'[frames'[s].elements]
        IN  /\ Len(now) = Len(old) + Len(data)
            /\ \A k \in 1..Len(old) : now[k] = old[k]
            /\ \A i \in 1..Len(data) :
                  /\ now[Len(old) + i].pos = Zero
                  /\ now[Len(old) + i].el.kind = "Meta"
                  /\ now[Len(old) + i].el.meta = data[i]
                  /\ now[Len(old) + i].el.size = frames[s].size
            /\ frames'[s].size = frames[s].size
            /\ frames'[s].baseline = frames[s].baseline]_vars

\* two entries were attached to a frame of size 20 x 20 that had an element
C18_Witness ==
    /\ last.op = "meta" /\ Len(last.data) = 2
    /\ frames[last.self].size = S20
    /\ LET now == Elems(World, last.self)
       IN  /\ Len(now) = 3
           /\ now[1].el.kind = "Text"
           /\ now[3] = Item(Zero, MetaEl(last.data[2], S20))

\* the operations that give frame s a baseline or make it another frame
Rebased(rec, s) == rec.op \in {"set_baseline", "clone", "new"} /\ rec.self = s

\* C19: the baseline of a frame stays implicit until set_baseline is called.
\* A frame whose baseline is not set keeps it so through translate, resize,
\* push, insert, prepend, push_frame, prepend_frame (a child with a baseline
\* of its own included), clear, clip and transform, and baseline() is its
\* current height: translate does not move it, resize moves it to the new
\* height.
C19_ImplicitBaseline ==
    [][\A s \in Slots :
        frames[s].baseline = None /\ ~Rebased(last', s) =>
            /\ frames'[s].baseline = None
            /\ baseline(frames'[s]) = frames'[s].size.y
            /\ last'.op = "translate" => baseline(frames'[s]) = baseline(frames[s])
            /\ last'.op = "resize" /\ last'.self = s =>
                  baseline(frames'[s]) = last'.target.y]_vars

\* a child with a baseline of its own was inlined into an empty frame whose
\* baseline is not set
C19_Witness ==
    /\ last.op = "push_frame" /\ last.how = "clone" /\ is_zero(last.pos)
    /\ frames[last.child].baseline # None
    /\ frames[last.self].baseline = None
    /\ frames[last.self].elements = frames[last.child].elements
    /\ layer(World, last.self) > 0

\* the faces some SetFont action of the layouts names
UsedFaces(layouts) ==
    UNION {{layouts[i][j] : j \in 1..Len(layouts[i])} : i \in 1..Len(layouts)}

\* C20: PDF object numbering.  For n pages and f used fonts the offsets are
\* catalog 1, page tree 2, pages 3..2+n, contents 3+n..2+2n and fonts
\* 3+2n..2+2n+5f; no id is ever written twice; a complete export has written
\* every id of 1..2+2n+5f once, and every reference it has emitted (page i
\* to content i, page tree to its pages, font resource i to fonts.start+5i,
\* the objects of a font to id+1..id+4) names an id that was written.
C20_ObjectNumbering ==
    pdf.pc # "idle" =>
        LET n == Len(pdf.layouts)
            f == Cardinality(UsedFaces(pdf.layouts))
            o == pdf.offsets
            total == 2 + 2 * n + 5 * f
            ws == pdf.written
            Times(id) == Cardinality({i \in 1..Len(ws) : ws[i] = id})
        IN  /\ o.catalog = 1 /\ o.page_tree = 2
            /\ o.pages = <<3, 2 + n>>
            /\ o.contents = <<3 + n, 2 + 2 * n>>
            /\ o.fonts = <<3 + 2 * n, total>>
            /\ \A i \in 1..Len(ws) : Times(ws[i]) = 1
            /\ pdf.pc = "done" =>
                /\ Len(ws) = total
                /\ \A id \in 1..total : Times(id) = 1
                /\ \A r \in pdf.refs : Times(r[2]) = 1
                /\ \A i \in 1..n :
                      <<2, 2 + i>> \in pdf.refs /\ <<2 + i, 2 + n + i>> \in pdf.refs
                /\ \A i \in 0..(f - 1) :
                      LET id == 3 + 2 * n + 5 * i
                      IN  /\ <<2, id>> \in pdf.refs
                          /\ \E k \in 1..4 : <<id, id + k>> \in pdf.refs
                          /\ \A k \in 1..4 : \E r \in pdf.refs :
                                r[1] \in id..(id + 4) /\ r[2] = id + k

\* a document of two pages that use two fonts was exported: 16 objects
C20_Witness ==
    /\ pdf.pc = "done"
    /\ Len(pdf.layouts) = 2 /\ Len(pdf.to_fontdock) = 2
    /\ Len(pdf.written) = 16

====
